---- MODULE Spec2Model ----
(***************************************************************************)
(* Model of experiments/playconf/environment.py: the coordinate mapper,    *)
(* the scene initializer, make_training and Environment.get_reward.        *)
(*                                                                         *)
(* Real numbers are fixed point: a configuration entry, a position, a      *)
(* velocity v is held as the integer v * Scale.  Scene dimensions          *)
(* (width, height, radius), TARGET_FPS and MAX_VELOCITY are plain          *)
(* integers.  Arrays are indexed from 0 as in the source: a Python list or *)
(* a numpy axis of length n is a function over 0..n-1.                     *)
(***************************************************************************)
EXTENDS Integers, Sequences, FiniteSets, TLC

VARIABLES
    env,              \* the Environment's fields set by __init__
    configurations,   \* the argument of get_reward: one row per scene
    scenes,           \* self.scenes: the scene replicas
    pc,               \* where get_reward is: phase, s_i, c_i, episode, focus
    actual_states,    \* get_reward's local tensor
    predicted_states, \* get_reward's local tensor
    errors,           \* get_reward's local list of per-scene error vectors
    calls,            \* the calls self.model.predict has received, in order
    ret,              \* what get_reward returned (or the exception it raised)
    probe             \* a call of one of the module's pure functions

mainVars == <<env, configurations, scenes, pc, actual_states,
              predicted_states, errors, calls, ret>>
vars == <<env, configurations, scenes, pc, actual_states,
          predicted_states, errors, calls, ret, probe>>

(***************************************************************************)
(* Bounds of the model.                                                    *)
(***************************************************************************)
Half == 1            \* the fixed-point grid has 2 * Half points per unit
MaxDim == 4          \* widths and heights tried on configuration_to_position
MaxRadius == 2       \* radii tried on configuration_to_position
MaxBatch == 2        \* batch_size ranges over 0..MaxBatch
MaxEpisodes == 3     \* episodes ranges over 0..MaxEpisodes
MaxPast == 2         \* past_timesteps ranges over 0..MaxPast
MaxTrainScenes == 2  \* make_training: scenes axis 0..MaxTrainScenes
MaxTrainEpisodes == 4 \* make_training: episodes axis 0..MaxTrainEpisodes
MaxTrainAxis == 4    \* make_training: last axis 1..MaxTrainAxis

Scale == 2 * Half
One == Scale

(***************************************************************************)
(* Constants imported from outside the file (renderer.constants,           *)
(* renderer.threecircles); their values are not in the file, small         *)
(* stand-ins are used.                                                     *)
(***************************************************************************)
TARGET_FPS == 3
MAX_VELOCITY == 2
\* len(scene.circles) of a ThreeCircles scene
NumCircles == 3

(***************************************************************************)
(* Python and numpy primitives.                                            *)
(***************************************************************************)
PyMin(a, b) == IF b < a THEN b ELSE a
PyMax(a, b) == IF b > a THEN b ELSE a
NpClip(v, lo, hi) == IF v < lo THEN lo ELSE IF v > hi THEN hi ELSE v

\* seq[start : stop] of a 0-indexed Python sequence held as a TLA+ sequence:
\* out-of-range bounds are truncated, never an error.
PySlice(seq, start, stop) ==
    LET hi == PyMin(stop, Len(seq))
        lo == PyMin(start, hi)
    IN  [k \in 1..(hi - lo) |-> seq[lo + k]]

(***************************************************************************)
(* configuration_to_position, lines 13-21.                                 *)
(***************************************************************************)
MutClampPosition(v, dim, radius) ==
    PyMax(PyMin(v, (dim - radius) * Scale), radius * Scale)

\* min(max(v, radius), dim - radius)
ClampPosition(v, dim, radius) ==
    PyMin(PyMax(v, radius * Scale), (dim - radius) * Scale)

configuration_to_position(x, y, width, height, radius) ==
    LET cx == NpClip(x, 0, One)
        cy == NpClip(y, 0, One)
        sx == cx * width
        sy == cy * height
    IN  <<ClampPosition(sx, width, radius), ClampPosition(sy, height, radius)>>

(***************************************************************************)
(* configuration_to_velocity, lines 24-29.                                 *)
(***************************************************************************)
MutScaleVelocity(c) == c * MAX_VELOCITY

\* (c * 2.0 - 1.0) * MAX_VELOCITY
ScaleVelocity(c) == (c * 2 - One) * MAX_VELOCITY

configuration_to_velocity(vx, vy) ==
    <<ScaleVelocity(NpClip(vx, 0, One)), ScaleVelocity(NpClip(vy, 0, One))>>

(***************************************************************************)
(* Idle values of the variables a specification does not use.              *)
(***************************************************************************)
IdleMain ==
    /\ env = [batch_size |-> 0]
    /\ configurations = <<>>
    /\ scenes = <<>>
    /\ pc = [phase |-> "idle"]
    /\ actual_states = <<>>
    /\ predicted_states = <<>>
    /\ errors = <<>>
    /\ calls = <<>>
    /\ ret = [kind |-> "none"]

(***************************************************************************)
(* SpecPos: configuration_to_position applied to bounded inputs.           *)
(***************************************************************************)
Entries == (0 - Scale)..(2 * Scale)

InitPos ==
    /\ IdleMain
    /\ \E x \in Entries, y \in Entries, w \in 0..MaxDim, h \in 0..MaxDim,
          r \in 0..MaxRadius :
          probe = [fn |-> "position", x |-> x, y |-> y, width |-> w,
                   height |-> h, radius |-> r, done |-> FALSE, out |-> <<>>]

CallPosition ==
    /\ probe.fn = "position"
    /\ ~probe.done
    /\ probe' = [probe EXCEPT !.done = TRUE,
                    !.out = configuration_to_position(probe.x, probe.y,
                               probe.width, probe.height, probe.radius)]
    /\ UNCHANGED mainVars

NextPos == CallPosition

SpecPos == InitPos /\ [][NextPos]_vars

(***************************************************************************)
(* SpecVel: configuration_to_velocity applied to bounded inputs.           *)
(***************************************************************************)
VelEntries == (0 - 3 * Scale)..(4 * Scale)

InitVel ==
    /\ IdleMain
    /\ \E vx \in VelEntries, vy \in VelEntries :
          probe = [fn |-> "velocity", vx |-> vx, vy |-> vy,
                   done |-> FALSE, out |-> <<>>]

CallVelocity ==
    /\ probe.fn = "velocity"
    /\ ~probe.done
    /\ probe' = [probe EXCEPT !.done = TRUE,
                    !.out = configuration_to_velocity(probe.vx, probe.vy)]
    /\ UNCHANGED mainVars

NextVel == CallVelocity

SpecVel == InitVel /\ [][NextVel]_vars

(***************************************************************************)
(* C5. configuration_to_position: the result lies in                       *)
(* [radius, width - radius] x [radius, height - radius].                   *)
(***************************************************************************)
PosUpper ==
    /\ probe.out[1] <= (probe.width - probe.radius) * Scale
    /\ probe.out[2] <= (probe.height - probe.radius) * Scale

PosLower ==
    /\ probe.radius * Scale <= probe.out[1]
    /\ probe.radius * Scale <= probe.out[2]

\* C5 as stated: for all x, y, width, height, radius the returned (px, py)
\* satisfies radius <= px <= width - radius and radius <= py <= height - radius.
C5_Original ==
    (probe.fn = "position" /\ probe.done) => (PosLower /\ PosUpper)

\* C5 amended: px <= width - radius and py <= height - radius always; the
\* lower bounds radius <= px, radius <= py hold on an axis whenever that
\* axis has 2 * radius <= dimension, and otherwise the result on that axis
\* is exactly dimension - radius (below radius).
C5_PositionBounds ==
    (probe.fn = "position" /\ probe.done) =>
        /\ PosUpper
        /\ IF 2 * probe.radius <= probe.width
              THEN probe.radius * Scale <= probe.out[1]
              ELSE probe.out[1] = (probe.width - probe.radius) * Scale
        /\ IF 2 * probe.radius <= probe.height
              THEN probe.radius * Scale <= probe.out[2]
              ELSE probe.out[2] = (probe.height - probe.radius) * Scale

\* An input above 1 on x and below 0 on y, both clamped into a scene that
\* is wide enough for the body.
C5_Witness ==
    /\ probe.fn = "position" /\ probe.done
    /\ probe.x > One /\ probe.y < 0
    /\ 2 * probe.radius < probe.width /\ 2 * probe.radius < probe.height
    /\ probe.radius > 0
    /\ probe.out = <<(probe.width - probe.radius) * Scale, probe.radius * Scale>>

(***************************************************************************)
(* C6. configuration_to_velocity: each output component lies in            *)
(* [-MAX_VELOCITY, MAX_VELOCITY] and equals (2c - 1) * MAX_VELOCITY with c *)
(* the input clamped to [0, 1]; f(<=0) = -MAX_VELOCITY, f(>=1) =           *)
(* MAX_VELOCITY, f(0.5) = 0.                                               *)
(***************************************************************************)
VelocityOf(v, out) ==
    /\ (0 - MAX_VELOCITY) * Scale <= out /\ out <= MAX_VELOCITY * Scale
    /\ \E c \in 0..One :
          /\ c = (IF v < 0 THEN 0 ELSE IF v > One THEN One ELSE v)
          /\ out = (2 * c - One) * MAX_VELOCITY
    /\ (v <= 0) => out = (0 - MAX_VELOCITY) * Scale
    /\ (v >= One) => out = MAX_VELOCITY * Scale
    /\ (2 * v = One) => out = 0

C6_VelocityRange ==
    (probe.fn = "velocity" /\ probe.done) =>
        /\ VelocityOf(probe.vx, probe.out[1])
        /\ VelocityOf(probe.vy, probe.out[2])

\* vx = 0.5 maps to 0 while vy above 1 maps to MAX_VELOCITY.
C6_Witness ==
    /\ probe.fn = "velocity" /\ probe.done
    /\ 2 * probe.vx = One /\ probe.vy > One
    /\ probe.out = <<0, MAX_VELOCITY * Scale>>

(***************************************************************************)
(* numpy arrays: a record of the shape and the data, the data a function   *)
(* over 0..n-1 per axis.                                                    *)
(***************************************************************************)
Range(n) == 0..(n - 1)

\* the increasing list [i for i in range(n) if i != focus]
ContextIndices(n, focus) ==
    SelectSeq([k \in 1..n |-> k - 1], LAMBDA i : i # focus)

\* np.ones((n, 1), dtype=np.float32)
NpOnes(n) == [shape |-> <<n, 1>>, data |-> [s \in Range(n) |-> [k \in Range(1) |-> One]]]

(***************************************************************************)
(* make_training, lines 46-66.                                             *)
(***************************************************************************)
\* actual_states[:, :, :2, :].reshape((num_scenes, num_circles, 4)), line 49:
\* the sizes must agree, otherwise numpy raises ValueError.
ReshapeOk(shape) ==
    shape[1] * shape[2] * PyMin(shape[3], 2) * shape[4] = shape[1] * shape[2] * 4

\* row-major flattening of the two trailing axes (episode, coordinate)
CurrentState(a) ==
    [s \in Range(a.shape[1]) |-> [c \in Range(a.shape[2]) |->
        [k \in Range(4) |-> a.data[s][c][k \div a.shape[4]][k % a.shape[4]]]]]

\* current_state[:, index]
Column(cur, n, index) ==
    [shape |-> <<n, 4>>, data |-> [s \in Range(n) |-> cur[s][index]]]

MutTargets(a, focus) ==
    [shape |-> <<a.shape[1], a.shape[4]>>,
     data |-> [s \in Range(a.shape[1]) |-> [k \in Range(a.shape[4]) |->
        (a.data[s][focus][1][k] - a.data[s][focus][0][k]) * TARGET_FPS]]]

\* (actual_states[:, focus, 2] - actual_states[:, focus, 1]) * TARGET_FPS
Targets(a, focus) ==
    [shape |-> <<a.shape[1], a.shape[4]>>,
     data |-> [s \in Range(a.shape[1]) |-> [k \in Range(a.shape[4]) |->
        (a.data[s][focus][2][k] - a.data[s][focus][1][k]) * TARGET_FPS]]]

\* Xs, lines 54-58
TrainingXs(a, focus) ==
    LET n == a.shape[1]
        cur == CurrentState(a)
        ctx == ContextIndices(a.shape[2], focus)
    IN  <<Column(cur, n, focus)>>
        \o [j \in 1..Len(ctx) |-> Column(cur, n, ctx[j])]
        \o [j \in 1..Len(ctx) |-> NpOnes(n)]

MutFirstFocus(num_circles) == num_circles - 1

\* the only focus_circle_index the loop of line 51 reaches: it returns in
\* its first iteration (line 66)
FirstFocus(num_circles) == 0

make_training(a) ==
    IF ~ReshapeOk(a.shape) THEN [kind |-> "error", error |-> "ValueError"]
    ELSE IF a.shape[2] = 0 THEN [kind |-> "none"]
    ELSE IF a.shape[3] < 3 THEN [kind |-> "error", error |-> "IndexError"]
    ELSE [kind |-> "ok",
          Xs |-> TrainingXs(a, FirstFocus(a.shape[2])),
          targets |-> Targets(a, FirstFocus(a.shape[2]))]

(***************************************************************************)
(* SpecTrain: make_training applied to bounded tensors.                    *)
(***************************************************************************)
TrainPatterns == {0, 1}

TrainValue(p, s, c, e, k) == (p + 1) * e * e + 3 * s + 7 * c + k

TrainTensor(p, shape) ==
    [shape |-> shape,
     data |-> [s \in Range(shape[1]) |-> [c \in Range(shape[2]) |->
                [e \in Range(shape[3]) |-> [k \in Range(shape[4]) |->
                    TrainValue(p, s, c, e, k)]]]]]

InitTrain ==
    /\ IdleMain
    /\ \E p \in TrainPatterns, S \in 0..MaxTrainScenes, N \in 0..NumCircles,
          E \in 0..MaxTrainEpisodes, A \in 1..MaxTrainAxis :
          probe = [fn |-> "training", arg |-> TrainTensor(p, <<S, N, E, A>>),
                   done |-> FALSE, out |-> [kind |-> "none"]]

CallTraining ==
    /\ probe.fn = "training"
    /\ ~probe.done
    /\ probe' = [probe EXCEPT !.done = TRUE, !.out = make_training(probe.arg)]
    /\ UNCHANGED mainVars

NextTrain == CallTraining

SpecTrain == InitTrain /\ [][NextTrain]_vars

TrainDone == probe.fn = "training" /\ probe.done
TrainShape == probe.arg.shape

\* targets[s] = (state of body 0 at episode hi - at episode lo) * TARGET_FPS
TargetsAre(hi, lo) ==
    /\ probe.out.kind = "ok"
    /\ DOMAIN probe.out.targets.data = Range(TrainShape[1])
    /\ \A s \in Range(TrainShape[1]) :
          /\ DOMAIN probe.out.targets.data[s] = Range(TrainShape[4])
          /\ \A k \in Range(TrainShape[4]) :
                probe.out.targets.data[s][k] =
                    (probe.arg.data[s][0][hi][k] - probe.arg.data[s][0][lo][k])
                        * TARGET_FPS

(***************************************************************************)
(* C3. make_training on a tensor with exactly 2 episodes: target =         *)
(* (body 0 at episode 1 - body 0 at episode 0) * TARGET_FPS.               *)
(***************************************************************************)
\* C3 as stated: with exactly 2 episodes (and at least one body) the call
\* returns, for every scene, (state[episode 1] - state[episode 0]) * FPS.
C3_Original ==
    (TrainDone /\ TrainShape[3] = 2 /\ TrainShape[2] >= 1) => TargetsAre(1, 0)

\* C3 amended: the target is (body 0 at episode 2 - body 0 at episode 1) *
\* TARGET_FPS, so the tensor needs at least 3 episodes: with 3 or more
\* episodes, coordinate axis 2 and at least one body the call returns that
\* target for every scene; with exactly 2 episodes it raises.
C3_TargetsFromEpisodes12 ==
    TrainDone =>
        /\ (probe.out.kind = "ok") => (TrainShape[3] >= 3 /\ TargetsAre(2, 1))
        /\ (TrainShape[3] >= 3 /\ TrainShape[4] = 2 /\ TrainShape[2] >= 1)
              => probe.out.kind = "ok"
        /\ (TrainShape[3] = 2 /\ TrainShape[2] >= 1) => probe.out.kind = "error"

\* a returned target over two scenes that differs from the episode 1 - 0
\* difference
C3_Witness ==
    /\ TrainDone /\ probe.out.kind = "ok"
    /\ TrainShape = <<2, 3, 3, 2>>
    /\ probe.out.targets.data[1][0] # (probe.arg.data[1][0][1][0]
                                        - probe.arg.data[1][0][0][0]) * TARGET_FPS

(***************************************************************************)
(* C4. make_training on shape (S, N, 2, 4): Xs has length 1 + 2*(N-1)      *)
(* (focus, contexts ascending, all-ones masks), targets has shape (S, 4),  *)
(* for focus index 0 only.                                                 *)
(***************************************************************************)
\* Xs = [state of body 0] + [state of bodies 1..N-1] + N-1 all-ones (S, 1)
XsForFocus0 ==
    LET S == TrainShape[1]
        N == TrainShape[2]
        Xs == probe.out.Xs
        window(c) == [shape |-> <<S, 4>>,
                      data |-> [s \in Range(S) |-> [k \in Range(4) |->
                                  probe.arg.data[s][c][k \div 2][k % 2]]]]
    IN  /\ Len(Xs) = 1 + 2 * (N - 1)
        /\ Xs[1] = window(0)
        /\ \A j \in 1..(N - 1) : Xs[1 + j] = window(j)
        /\ \A j \in 1..(N - 1) :
              /\ Xs[N + j].shape = <<S, 1>>
              /\ \A s \in Range(S) : Xs[N + j].data[s][0] = One

\* C4 as stated: shape (S, N, 2, 4) returns successfully with Xs of length
\* 1 + 2*(N-1) and targets of shape (S, 4).
C4_Original ==
    (TrainDone /\ TrainShape[3] = 2 /\ TrainShape[4] = 4 /\ TrainShape[2] >= 1) =>
        /\ probe.out.kind = "ok"
        /\ Len(probe.out.Xs) = 1 + 2 * (TrainShape[2] - 1)
        /\ probe.out.targets.shape = <<TrainShape[1], 4>>

\* C4 amended: the shape that returns is (S, N, E, 2) with E >= 3 and
\* N >= 1: then Xs has length 1 + 2*(N-1) (focus body 0, bodies 1..N-1 in
\* ascending order, N-1 all-ones masks) and targets has shape (S, 2), both
\* for focus index 0 whatever N; shape (S, N, 2, 4) with N >= 1 raises.
C4_XsAndTargetsShape ==
    TrainDone =>
        /\ (TrainShape[3] >= 3 /\ TrainShape[4] = 2 /\ TrainShape[2] >= 1) =>
              /\ probe.out.kind = "ok"
              /\ XsForFocus0
              /\ probe.out.targets.shape = <<TrainShape[1], 2>>
              /\ TargetsAre(2, 1)
        /\ (TrainShape[3] = 2 /\ TrainShape[4] = 4 /\ TrainShape[2] >= 1) =>
              probe.out.kind = "error"

\* three bodies, two scenes: five arrays, the contexts are bodies 1 and 2
C4_Witness ==
    /\ TrainDone /\ probe.out.kind = "ok"
    /\ TrainShape[1] = 2 /\ TrainShape[2] = 3 /\ TrainShape[4] = 2
    /\ Len(probe.out.Xs) = 5
    /\ probe.out.Xs[2] # probe.out.Xs[3]
    /\ probe.out.targets.shape = <<2, 2>>

(***************************************************************************)
(* The collaborators of get_reward that live outside the file: the scene   *)
(* (renderer.threecircles.ThreeCircles), get_circle_state and the model.   *)
(***************************************************************************)
\* ThreeCircles(width, height, radius): NumCircles bodies at rest; steps
\* counts the calls of step() the scene has received.
NewScene(width, height, radius) ==
    [circles |-> [c \in Range(NumCircles) |->
                    [position |-> <<radius * Scale, radius * Scale>>,
                     velocity |-> <<0, 0>>]],
     steps |-> 0]

\* one coordinate of one body over one tick: move by velocity / TARGET_FPS,
\* bounce off the walls
MoveAxis(p, v, dim, radius) ==
    LET q == p + (v \div TARGET_FPS)
    IN  IF q < radius * Scale THEN <<radius * Scale, 0 - v>>
        ELSE IF q > (dim - radius) * Scale THEN <<(dim - radius) * Scale, 0 - v>>
        ELSE <<q, v>>

\* scene.step()
SceneStep(scene) ==
    [circles |-> [c \in Range(NumCircles) |->
        LET mx == MoveAxis(scene.circles[c].position[1],
                           scene.circles[c].velocity[1], env.width, env.radius)
            my == MoveAxis(scene.circles[c].position[2],
                           scene.circles[c].velocity[2], env.height, env.radius)
        IN  [position |-> <<mx[1], my[1]>>, velocity |-> <<mx[2], my[2]>>]],
     steps |-> scene.steps + 1]

\* get_circle_state(scene, circle): the body's 2-vector
get_circle_state(scene, c) == scene.circles[c].position

Models == {0, 1, 2}

\* self.model.predict(Xs): one 2-vector per scene, a function of the focus
\* window alone; model 0 always answers zero.
ModelPredict(model, Xs) ==
    LET focus == Xs[1]
        n == focus.shape[1]
        w == focus.shape[2]
        last(s, k) == IF w >= 2 THEN focus.data[s][w - 2 + k] ELSE 0
    IN  [shape |-> <<n, 2>>,
         data |-> [s \in Range(n) |-> [k \in Range(2) |->
                     model * ((last(s, k) % 5) + k + 1)]]]

(***************************************************************************)
(* initialize_scene_from_configuration, lines 32-43.                       *)
(***************************************************************************)
\* the slice of line 34 is configuration[c_i : c_i + 4]
SliceStart(c_i) == c_i

\* x, y, vx, vy = configuration[c_i : c_i + 4]: the four values, or the
\* ValueError of unpacking a slice that the end of the row cut short
UnpackCircle(configuration, c_i) ==
    LET sl == PySlice(configuration, SliceStart(c_i), SliceStart(c_i) + 4)
    IN  IF Len(sl) = 4 THEN [kind |-> "ok", x |-> sl[1], y |-> sl[2],
                             vx |-> sl[3], vy |-> sl[4]]
        ELSE [kind |-> "error", error |-> "ValueError"]

\* lines 36-39: the body of the loop for circle c_i
AssignedCircle(u) ==
    [position |-> configuration_to_position(u.x, u.y, env.width, env.height,
                                            env.radius),
     velocity |-> configuration_to_velocity(u.vx, u.vy)]

MutBufferStep(scene) == scene

\* line 43: the buffer step after all circles are set
BufferStep(scene) == SceneStep(scene)

(***************************************************************************)
(* Environment.__init__ (lines 70-96) and the arguments of one get_reward  *)
(* call.                                                                   *)
(***************************************************************************)
DefaultWidth == 256
DefaultHeight == 256
DefaultRadius == 30

ConfPatterns == {0, 1}

\* a configuration row of the given length; entries run over
\* -1.0 .. 2.0 so that the clamps of the mapper are exercised
ConfRow(p, len) ==
    [k \in 1..len |-> (((p + 1) * (k - 1) + 3 * p) % (3 * Scale + 1)) - Scale]

Init ==
    /\ \E B \in 0..MaxBatch, E \in 0..MaxEpisodes, P \in 0..MaxPast,
          m \in Models :
          env = [episodes |-> E, batch_size |-> B, past_timesteps |-> P,
                 width |-> DefaultWidth, height |-> DefaultHeight,
                 radius |-> DefaultRadius, model |-> m]
    /\ scenes = [s \in Range(env.batch_size) |->
                    NewScene(env.width, env.height, env.radius)]
    /\ \E len \in 0..(4 * NumCircles) :
          \E ps \in [Range(env.batch_size) -> ConfPatterns] :
             configurations = [s \in Range(env.batch_size) |-> ConfRow(ps[s], len)]
    /\ pc = [phase |-> "start", s_i |-> 0, c_i |-> 0, episode |-> 0, focus |-> 0]
    /\ actual_states = <<>>
    /\ predicted_states = <<>>
    /\ errors = <<>>
    /\ calls = <<>>
    /\ ret = [kind |-> "none"]
    /\ probe = [fn |-> "none"]

(***************************************************************************)
(* Environment.get_reward, lines 98-178.                                   *)
(***************************************************************************)
At(phase) == pc.phase = phase

Goto(phase, s_i, c_i, episode, focus) ==
    pc' = [phase |-> phase, s_i |-> s_i, c_i |-> c_i, episode |-> episode,
           focus |-> focus]

Raise(error) ==
    /\ ret' = [kind |-> "error", error |-> error]
    /\ Goto("done", pc.s_i, pc.c_i, pc.episode, pc.focus)

\* np.zeros((len(self.scenes), num_circles, self.episodes, 2))
NpZeros4(shape) ==
    [shape |-> shape,
     data |-> [s \in Range(shape[1]) |-> [c \in Range(shape[2]) |->
                [e \in Range(shape[3]) |-> <<0, 0>>]]]]

\* a[i] on an axis of length n: a negative index counts from the end
NpIndex(i, n) == IF i < 0 THEN i + n ELSE i

\* line 108: num_circles = len(self.scenes[0].circles)
Start ==
    /\ At("start")
    /\ IF env.batch_size = 0
          THEN Raise("IndexError")
          ELSE Goto("init", 0, 0, 0, 0) /\ UNCHANGED ret
    /\ UNCHANGED <<env, configurations, scenes, actual_states,
                   predicted_states, errors, calls, probe>>

\* lines 33-39 for scene pc.s_i, circle pc.c_i
AssignCircle ==
    /\ At("init")
    /\ pc.c_i < NumCircles
    /\ LET u == UnpackCircle(configurations[pc.s_i], pc.c_i)
       IN  IF u.kind = "error"
              THEN Raise(u.error) /\ UNCHANGED scenes
              ELSE /\ scenes' = [scenes EXCEPT ![pc.s_i].circles[pc.c_i] =
                                    AssignedCircle(u)]
                   /\ Goto("init", pc.s_i, pc.c_i + 1, 0, 0)
                   /\ UNCHANGED ret
    /\ UNCHANGED <<env, configurations, actual_states, predicted_states,
                   errors, calls, probe>>

\* line 43 for scene pc.s_i, then the next scene of the loop of line 111
InitStep ==
    /\ At("init")
    /\ pc.c_i = NumCircles
    /\ scenes' = [scenes EXCEPT ![pc.s_i] = BufferStep(scenes[pc.s_i])]
    /\ IF pc.s_i + 1 < env.batch_size
          THEN Goto("init", pc.s_i + 1, 0, 0, 0)
          ELSE Goto("alloc", 0, 0, 0, 0)
    /\ UNCHANGED <<env, configurations, actual_states, predicted_states,
                   errors, calls, ret, probe>>

MutFirstPredictEpisode == env.past_timesteps + 1

\* range(self.past_timesteps, self.episodes) starts at past_timesteps
FirstPredictEpisode == env.past_timesteps

\* the prediction loop of line 140 is entered, or skipped when its range
\* is empty
GotoPredict ==
    IF FirstPredictEpisode < env.episodes
       THEN Goto("predict", 0, 0, FirstPredictEpisode, 0)
       ELSE Goto("return", 0, 0, 0, 0)

\* lines 121-129
Allocate ==
    /\ At("alloc")
    /\ actual_states' = NpZeros4(<<env.batch_size, NumCircles, env.episodes, 2>>)
    /\ predicted_states' = NpZeros4(<<env.batch_size, NumCircles, env.episodes, 2>>)
    /\ errors' = <<>>
    /\ IF env.episodes > 0 THEN Goto("rollout", 0, 0, 0, 0) ELSE GotoPredict
    /\ UNCHANGED <<env, configurations, scenes, calls, ret, probe>>

\* line 134 for episode pc.episode, scene pc.s_i
RolloutStep ==
    /\ At("rollout")
    /\ scenes' = [scenes EXCEPT ![pc.s_i] = SceneStep(scenes[pc.s_i])]
    /\ Goto("record", pc.s_i, 0, pc.episode, 0)
    /\ UNCHANGED <<env, configurations, actual_states, predicted_states,
                   errors, calls, ret, probe>>

\* lines 136-137 for episode pc.episode, scene pc.s_i, then the next
\* scene, the next episode or the prediction loop
RecordStates ==
    /\ At("record")
    /\ actual_states' = [actual_states EXCEPT !.data[pc.s_i] =
          [c \in Range(NumCircles) |->
              [actual_states.data[pc.s_i][c] EXCEPT ![pc.episode] =
                  get_circle_state(scenes[pc.s_i], c)]]]
    /\ IF pc.s_i + 1 < env.batch_size
          THEN Goto("rollout", pc.s_i + 1, 0, pc.episode, 0)
          ELSE IF pc.episode + 1 < env.episodes
                  THEN Goto("rollout", 0, 0, pc.episode + 1, 0)
                  ELSE GotoPredict
    /\ UNCHANGED <<env, configurations, scenes, predicted_states, errors,
                   calls, ret, probe>>

\* lines 141-143: actual_states[:, :, episode - past : episode, :] reshaped
\* to (scenes, circles, past * 2)
Window(actual, episode) ==
    [s \in Range(env.batch_size) |-> [c \in Range(NumCircles) |->
        [k \in Range(env.past_timesteps * 2) |->
            actual.data[s][c][episode - env.past_timesteps + (k \div 2)][(k % 2) + 1]]]]

\* current_state[:, index]
WindowColumn(cur, index) ==
    [shape |-> <<env.batch_size, env.past_timesteps * 2>>,
     data |-> [s \in Range(env.batch_size) |-> cur[s][index]]]

\* lines 150-163: the argument of self.model.predict
PredictInputs(actual, episode, focus) ==
    LET cur == Window(actual, episode)
        ctx == ContextIndices(NumCircles, focus)
    IN  <<WindowColumn(cur, focus)>>
        \o [j \in 1..Len(ctx) |-> WindowColumn(cur, ctx[j])]
        \o [j \in 1..Len(ctx) |-> NpOnes(env.batch_size)]

\* lines 165-168: actual_states[:, focus, episode - 1] + predictions / TARGET_FPS
Reconstruct(actual, predictions, episode, focus) ==
    [s \in Range(env.batch_size) |-> [k \in 1..2 |->
        actual.data[s][focus][NpIndex(episode - 1, env.episodes)][k]
            + (predictions.data[s][k - 1] \div TARGET_FPS)]]

Abs(x) == IF x < 0 THEN 0 - x ELSE x

\* np.linalg.norm of a 2-vector, rounded down
Norm2(dx, dy) ==
    CHOOSE r \in 0..(Abs(dx) + Abs(dy)) :
        r * r <= dx * dx + dy * dy /\ dx * dx + dy * dy < (r + 1) * (r + 1)

\* lines 170-174
Mse(actual, predicted, episode, focus) ==
    [s \in Range(env.batch_size) |->
        Norm2(actual.data[s][focus][episode][1] - predicted[s][1],
              actual.data[s][focus][episode][2] - predicted[s][2])]

\* lines 141-176 for episode pc.episode, focus circle pc.focus
Predict ==
    /\ At("predict")
    /\ LET Xs == PredictInputs(actual_states, pc.episode, pc.focus)
           predictions == ModelPredict(env.model, Xs)
           rec == Reconstruct(actual_states, predictions, pc.episode, pc.focus)
       IN  /\ calls' = Append(calls, [episode |-> pc.episode, focus |-> pc.focus,
                                      inputs |-> Xs, output |-> predictions])
           /\ predicted_states' = [predicted_states EXCEPT
                 !.data = [s \in Range(env.batch_size) |->
                             [predicted_states.data[s] EXCEPT
                                 ![pc.focus][pc.episode] = rec[s]]]]
           /\ errors' = Append(errors,
                 Mse(actual_states, rec, pc.episode, pc.focus))
    /\ IF pc.focus + 1 < NumCircles
          THEN Goto("predict", 0, 0, pc.episode, pc.focus + 1)
          ELSE IF pc.episode + 1 < env.episodes
                  THEN Goto("predict", 0, 0, pc.episode + 1, 0)
                  ELSE Goto("return", 0, 0, 0, 0)
    /\ UNCHANGED <<env, configurations, scenes, actual_states, ret, probe>>

RECURSIVE SumAt(_, _, _)
SumAt(seq, s, n) == IF n = 0 THEN 0 ELSE seq[n][s] + SumAt(seq, s, n - 1)

\* np.mean(np.array(errors), axis=0): over an empty list np.array has shape
\* (0,) and the mean is the scalar nan
NpMeanAxis0(errs, n) ==
    IF Len(errs) = 0 THEN [shape |-> <<>>, data |-> "nan"]
    ELSE [shape |-> <<n>>,
          data |-> [s \in Range(n) |-> SumAt(errs, s, Len(errs)) \div Len(errs)]]

\* line 178
Return ==
    /\ At("return")
    /\ ret' = [kind |-> "ok",
               reward |-> NpMeanAxis0(errors, env.batch_size),
               actual_states |-> actual_states,
               predicted_states |-> predicted_states]
    /\ Goto("done", 0, 0, 0, 0)
    /\ UNCHANGED <<env, configurations, scenes, actual_states,
                   predicted_states, errors, calls, probe>>

Next ==
    \/ Start
    \/ AssignCircle
    \/ InitStep
    \/ Allocate
    \/ RolloutStep
    \/ RecordStates
    \/ Predict
    \/ Return

Spec == Init /\ [][Next]_vars

(***************************************************************************)
(* Claims about get_reward and the scene initializer, under Spec.          *)
(***************************************************************************)
\* the length of every row of configurations
ConfLen == IF env.batch_size = 0 THEN 0 ELSE Len(configurations[0])

WellShaped == env.batch_size >= 1 /\ ConfLen = 4 * NumCircles

Returned == At("done") /\ ret.kind = "ok"

\* C1 as stated: during the initialization of a scene from a full-length
\* configuration, every body i assigned so far holds the position and
\* velocity mapped from the entries 4i, 4i+1, 4i+2, 4i+3 of its row.
C1_Original ==
    (At("init") /\ ConfLen >= 4 * NumCircles) =>
        \A i \in Range(pc.c_i) :
            LET row == configurations[pc.s_i]
            IN  scenes[pc.s_i].circles[i] =
                  [position |-> configuration_to_position(row[4 * i + 1],
                        row[4 * i + 2], env.width, env.height, env.radius),
                   velocity |-> configuration_to_velocity(row[4 * i + 3],
                        row[4 * i + 4])]

\* C2 as stated: with rows shorter than 4 x body count no scene's
\* initialization completes and get_reward never returns normally.
C2_Original ==
    (env.batch_size >= 1 /\ ConfLen < 4 * NumCircles) =>
        /\ \A s \in Range(env.batch_size) : scenes[s].steps = 0
        /\ ~At("alloc")
        /\ ret.kind # "ok"

\* C7 as stated: on a well-shaped input get_reward returns actual_states
\* and predicted_states of shape (batch_size, body_count, episodes, 2) and a
\* mean error of shape (batch_size,), also when episodes <= past_timesteps.
C7_Original ==
    (At("done") /\ WellShaped) =>
        /\ ret.kind = "ok"
        /\ ret.actual_states.shape =
              <<env.batch_size, NumCircles, env.episodes, 2>>
        /\ ret.predicted_states.shape =
              <<env.batch_size, NumCircles, env.episodes, 2>>
        /\ ret.reward.shape = <<env.batch_size>>

(***************************************************************************)
(* C8. The prediction loop handles each (episode, focus) pair with         *)
(* past_timesteps <= episode <= episodes - 1 exactly once, in ascending    *)
(* order, one model.predict call and one error vector per pair.            *)
(***************************************************************************)
\* the i-th call is for the i-th pair in ascending (episode, focus) order
\* starting at episode past_timesteps, and each call appended one error
PairsInOrder ==
    /\ Len(errors) = Len(calls)
    /\ \A i \in 1..Len(calls) :
          /\ calls[i].episode = env.past_timesteps + ((i - 1) \div NumCircles)
          /\ calls[i].focus = (i - 1) % NumCircles
          /\ calls[i].episode >= env.past_timesteps
          /\ calls[i].episode <= env.episodes - 1

\* C8 as stated: at the return the error list has
\* (episodes - past_timesteps) * body_count entries.
C8_Original ==
    Returned =>
        /\ PairsInOrder
        /\ Len(errors) = (env.episodes - env.past_timesteps) * NumCircles

\* C8 amended: as stated, except that the error list has
\* max(episodes - past_timesteps, 0) * body_count entries: when
\* episodes < past_timesteps the loop does not run and the list is empty,
\* not of negative length.
C8_EachPairOnce ==
    /\ At("idle") \/ PairsInOrder
    /\ Returned =>
          Len(errors) =
              PyMax(env.episodes - env.past_timesteps, 0) * NumCircles

\* episodes = 3, past_timesteps = 2: only episode 2, exactly 3 entries
C8_Witness ==
    /\ Returned
    /\ env.episodes = 3 /\ env.past_timesteps = 2
    /\ Len(errors) = 3
    /\ \A i \in 1..3 : calls[i].episode = 2 /\ calls[i].focus = i - 1

(***************************************************************************)
(* C9. predicted_states[s, b, e] = actual_states[s, b, e-1] +              *)
(* model_output(e, b)[s] / TARGET_FPS, the model input built only from     *)
(* actual_states at episodes e - past_timesteps .. e - 1.                  *)
(***************************************************************************)
\* the window of body c that the call for episode e must have been given
ExpectedWindow(e, c) ==
    [shape |-> <<env.batch_size, env.past_timesteps * 2>>,
     data |-> [s \in Range(env.batch_size) |->
                [k \in Range(env.past_timesteps * 2) |->
                    actual_states.data[s][c]
                        [e - env.past_timesteps + (k \div 2)][(k % 2) + 1]]]]

InputsFromPast(call) ==
    LET ctx == ContextIndices(NumCircles, call.focus)
    IN  /\ Len(call.inputs) = 1 + 2 * Len(ctx)
        /\ call.inputs[1] = ExpectedWindow(call.episode, call.focus)
        /\ \A j \in 1..Len(ctx) :
              call.inputs[1 + j] = ExpectedWindow(call.episode, ctx[j])

\* predicted[s, b, e] = actual[s, b, base] + output[s] / TARGET_FPS
ReconstructedFrom(call, base) ==
    \A s \in Range(env.batch_size) : \A k \in 1..2 :
        predicted_states.data[s][call.focus][call.episode][k] =
            actual_states.data[s][call.focus][base][k]
                + (call.output.data[s][k - 1] \div TARGET_FPS)

\* C9 as stated: for every handled pair (e, b), e - 1 is a recorded
\* episode before e and predicted[s, b, e] is actual[s, b, e-1] plus the
\* model output over TARGET_FPS, the input built from episodes before e.
C9_Original ==
    \A i \in 1..Len(calls) :
        /\ calls[i].episode - 1 \in Range(env.episodes)
        /\ ReconstructedFrom(calls[i], calls[i].episode - 1)
        /\ InputsFromPast(calls[i])

\* What the code does instead: the base is the numpy index e - 1, which for
\* e = 0 (past_timesteps = 0) is -1, the last episode.
C9_NumpyIndexed ==
    \A i \in 1..Len(calls) :
        /\ ReconstructedFrom(calls[i], NpIndex(calls[i].episode - 1, env.episodes))
        /\ InputsFromPast(calls[i])

(***************************************************************************)
(* C10. Every scene is stepped exactly episodes + 1 times: once by its     *)
(* initialization, after all its bodies were assigned and before any       *)
(* rollout step of any scene, then once per episode, all scenes finishing  *)
(* episode e before any starts e + 1; actual_states[s, b, e] is body b's   *)
(* position right after scene s's (e+1)-th rollout step.                   *)
(***************************************************************************)
StepsAre(f(_)) == \A s \in Range(env.batch_size) : scenes[s].steps = f(s)

StepCounts ==
    /\ At("start") => StepsAre(LAMBDA s : 0)
    /\ At("init") => StepsAre(LAMBDA s : IF s < pc.s_i THEN 1 ELSE 0)
    /\ At("alloc") => StepsAre(LAMBDA s : 1)
    /\ At("rollout") =>
          StepsAre(LAMBDA s : IF s < pc.s_i THEN pc.episode + 2
                                            ELSE pc.episode + 1)
    /\ At("record") =>
          StepsAre(LAMBDA s : IF s <= pc.s_i THEN pc.episode + 2
                                             ELSE pc.episode + 1)
    /\ (At("predict") \/ At("return") \/ Returned) =>
          StepsAre(LAMBDA s : env.episodes + 1)

\* actual_states[s, :, e] has been written
Recorded(s, e) ==
    \/ (At("rollout") \/ At("record")) /\
          (e < pc.episode \/ (e = pc.episode /\ s < pc.s_i))
    \/ At("predict") \/ At("return") \/ Returned

\* until scene s is stepped again, what was recorded for episode e is the
\* position its bodies have after rollout step e + 1 (step e + 2 in all)
RecordFresh ==
    \A s \in Range(env.batch_size) : \A e \in Range(env.episodes) :
        (Recorded(s, e) /\ scenes[s].steps = e + 2) =>
            \A b \in Range(NumCircles) :
                actual_states.data[s][b][e] = get_circle_state(scenes[s], b)

\* what was recorded is never written again
RecordsKept ==
    \A s \in Range(env.batch_size) : \A e \in Range(env.episodes) :
        Recorded(s, e) =>
            \A b \in Range(NumCircles) :
                actual_states'.data[s][b][e] = actual_states.data[s][b][e]

C10_SteppedOncePerEpisode ==
    /\ [](StepCounts /\ RecordFresh)
    /\ [][RecordsKept]_vars

\* two scenes, three episodes: four steps each, and the bodies moved
\* between the first and the last record
C10_Witness ==
    /\ Returned
    /\ env.batch_size = 2 /\ env.episodes = 3
    /\ \A s \in Range(2) : scenes[s].steps = 4
    /\ actual_states.data[1][2][2] = get_circle_state(scenes[1], 2)
    /\ actual_states.data[1][2][0] # actual_states.data[1][2][2]

====
